---- MODULE Spec2Model ----
(***************************************************************************)
(* Database connection lifecycle manager of MedScheduleAI Pro              *)
(* (server/src/config/database: the connection manager, errors.ts and      *)
(* constants.ts).                                                          *)
(*                                                                         *)
(* The manager runs on a single-threaded event loop: every handler runs    *)
(* without interruption up to its next await, so one action of this model  *)
(* is the code between two awaits.  The driver (mongoose) is the           *)
(* environment: it decides the outcome of every connect and disconnect     *)
(* call and delivers its connection events on its own.                     *)
(***************************************************************************)
EXTENDS Integers, Sequences, FiniteSets, TLC

(* ------------------------------ bounds -------------------------------- *)

\* Number of connectDatabase() calls the application makes (one per caller).
NumCallers == 2
\* Largest options.retries a caller passes.
MaxRetries == 2
\* Number of driver connection events delivered in one run.
MaxDriverEvents == 2
\* Number of termination signals delivered in one run.
MaxSignals == 2
\* Number of checkDatabaseHealth() calls made in one run.
MaxHealthChecks == 2
\* Math.random() is drawn from {0/JitterSteps, ..., (JitterSteps-1)/JitterSteps}.
JitterSteps == 3
\* Largest number of the known substrings one error message includes.
MaxPatterns == 2
\* Largest attempt number calculateRetryDelay is called with on its own.
MaxAttemptNumber == 4
\* Number of instants new Date() can return.
MaxTime == 2

(* ------------------------- program constants -------------------------- *)

\* DATABASE_CONFIG.RETRY_DELAY_MS
RETRY_DELAY_MS == 5000
\* calculateRetryDelay's default maxDelay (connectDatabase passes none)
DEFAULT_MAX_DELAY == 30000
\* calculateRetryDelay: baseDelay = 1000
DEFAULT_BASE_DELAY == 1000

Callers == 1..NumCallers
RetryChoices == 0..MaxRetries
\* options.retryDelay: the callers keep the default.
RetryDelayChoices == {RETRY_DELAY_MS}
JitterDraws == 0..(JitterSteps - 1)
Signals == {"SIGINT", "SIGTERM", "SIGUSR2"}

(* --------------------------- error messages --------------------------- *)

\* The substrings classifyConnectionError and isRecoverableError look for.
TimeoutPatterns == {"timeout", "timed out"}
RefusedPatterns == {"econnrefused", "connection refused"}
AuthPatterns == {"authentication failed", "unauthorized", "invalid credentials"}
recoverablePatterns ==
    {"timeout", "network", "temporary", "connection reset", "connection lost",
     "server selection", "dns"}
nonRecoverablePatterns ==
    {"authentication failed", "unauthorized", "invalid credentials",
     "access denied", "bad auth", "authentication error"}

\* A raw driver error is its lowercased message, kept as the set of the known
\* substrings the message includes (String.prototype.includes on each).
RawErrors ==
    { {"timeout"},
      {"authentication failed"} }

\* Every message with at most MaxPatterns of the known substrings (no known
\* substring includes another, so each such set is the set of some message).
KnownPatterns ==
    TimeoutPatterns \cup RefusedPatterns \cup AuthPatterns
        \cup recoverablePatterns \cup nonRecoverablePatterns
ErrorMessages == {m \in SUBSET KnownPatterns : Cardinality(m) <= MaxPatterns}

\* safeErrorMessage(undefined): 'Unknown error occurred' includes no pattern.
UnknownError == {}
NoError == {"<none>"}

DATABASE_ERRORS ==
    [
      MISSING_MONGODB_URI |->
        [code |-> "DB_CONFIG_001", severity |-> "CRITICAL",
         message |-> "MongoDB connection URI is not configured",
         action |-> "Configure MONGODB_URI in your environment configuration file"],
      MISSING_TEST_URI |->
        [code |-> "DB_CONFIG_002", severity |-> "HIGH",
         message |-> "Test database URI is not configured for test environment",
         action |-> "Configure MONGODB_TEST_URI in your test environment configuration"],
      MISSING_PRODUCTION_SECURITY |->
        [code |-> "DB_SECURITY_001", severity |-> "CRITICAL",
         message |-> "Required security environment variables missing for production",
         action |-> "Configure JWT_SECRET, BCRYPT_ROUNDS, and other required security variables"],
      WEAK_JWT_SECRET |->
        [code |-> "DB_SECURITY_002", severity |-> "CRITICAL",
         message |-> "JWT secret must be at least 32 characters in production",
         action |-> "Generate and configure a secure JWT secret with minimum 32 characters"],
      CONNECTION_TIMEOUT |->
        [code |-> "DB_CONN_001", severity |-> "HIGH",
         message |-> "Database connection attempt timed out",
         action |-> "Check database server availability and network connectivity"],
      CONNECTION_REFUSED |->
        [code |-> "DB_CONN_002", severity |-> "HIGH",
         message |-> "Database connection was refused",
         action |-> "Verify database server is running and accepting connections"],
      AUTHENTICATION_FAILED |->
        [code |-> "DB_AUTH_001", severity |-> "HIGH",
         message |-> "Database authentication failed",
         action |-> "Verify database username, password, and user permissions"],
      HEALTH_CHECK_TIMEOUT |->
        [code |-> "DB_HEALTH_001", severity |-> "MEDIUM",
         message |-> "Database health check timed out",
         action |-> "Check database performance and network latency"],
      CONNECTION_UNAVAILABLE |->
        [code |-> "DB_HEALTH_002", severity |-> "MEDIUM",
         message |-> "Database connection is not available for health check",
         action |-> "Ensure database connection is established before health check"],
      DISCONNECTION_ERROR |->
        [code |-> "DB_DISC_001", severity |-> "MEDIUM",
         message |-> "Error occurred during database disconnection",
         action |-> "Check for pending transactions or connection locks"],
      GRACEFUL_SHUTDOWN_TIMEOUT |->
        [code |-> "DB_SHUTDOWN_001", severity |-> "HIGH",
         message |-> "Graceful shutdown exceeded timeout threshold",
         action |-> "System will perform emergency shutdown - investigate pending operations"],
      EMERGENCY_SHUTDOWN |->
        [code |-> "DB_SHUTDOWN_002", severity |-> "CRITICAL",
         message |-> "Emergency database shutdown initiated",
         action |-> "Review system logs for potential data consistency issues"] ]

\* new DatabaseError(errorConfig, originalError); its timestamp, name and
\* stack are added by DatabaseErrorAt where they are read.
DatabaseError(errorConfig, originalError) ==
    [code |-> errorConfig.code, severity |-> errorConfig.severity,
     message |-> errorConfig.message, action |-> errorConfig.action,
     originalError |-> originalError]

NoThrow ==
    [code |-> "none", severity |-> "none", message |-> "none", action |-> "none",
     originalError |-> NoError]

\* Mutant: the refused patterns are tested before the timeout patterns.
classifyConnectionErrorRefusedFirst(error) ==
    IF error \cap RefusedPatterns # {}
    THEN DatabaseError(DATABASE_ERRORS.CONNECTION_REFUSED, error)
    ELSE IF error \cap TimeoutPatterns # {}
    THEN DatabaseError(DATABASE_ERRORS.CONNECTION_TIMEOUT, error)
    ELSE IF error \cap AuthPatterns # {}
    THEN DatabaseError(DATABASE_ERRORS.AUTHENTICATION_FAILED, error)
    ELSE DatabaseError(DATABASE_ERRORS.CONNECTION_TIMEOUT, error)

classifyConnectionError(error) ==
    IF error \cap TimeoutPatterns # {}
    THEN DatabaseError(DATABASE_ERRORS.CONNECTION_TIMEOUT, error)
    ELSE IF error \cap RefusedPatterns # {}
    THEN DatabaseError(DATABASE_ERRORS.CONNECTION_REFUSED, error)
    ELSE IF error \cap AuthPatterns # {}
    THEN DatabaseError(DATABASE_ERRORS.AUTHENTICATION_FAILED, error)
    ELSE DatabaseError(DATABASE_ERRORS.CONNECTION_TIMEOUT, error)

\* Mutant: the recoverable patterns are tested first.
isRecoverableErrorRecoverableFirst(error) ==
    IF error \cap recoverablePatterns # {}
    THEN TRUE
    ELSE FALSE

isRecoverableError(error) ==
    IF error \cap nonRecoverablePatterns # {}
    THEN FALSE
    ELSE error \cap recoverablePatterns # {}

Min(a, b) == IF a < b THEN a ELSE b

\* Mutant: the exponential delay is not capped at maxDelay.
calculateRetryDelayUncapped(attempt, baseDelay, maxDelay, k) ==
    LET twiceExponentialDelay == baseDelay * (2 ^ attempt)
    IN  (twiceExponentialDelay * (7 * JitterSteps + 2 * k)) \div (16 * JitterSteps)

\* calculateRetryDelay with Math.random() = k / JitterSteps.  Twice the
\* exponential delay is kept so that attempt = 0 (base / 2) stays exact:
\*   floor(e + e * 0.25 * (k/J - 0.5)) = floor(2e * (7J + 2k) / (16J)).
calculateRetryDelay(attempt, baseDelay, maxDelay, k) ==
    LET twiceExponentialDelay == Min(baseDelay * (2 ^ attempt), 2 * maxDelay)
    IN  (twiceExponentialDelay * (7 * JitterSteps + 2 * k)) \div (16 * JitterSteps)

(* ----------------------- environment validation ----------------------- *)

\* jwtSecret.length < 32
MIN_JWT_SECRET_LENGTH == 32

\* NODE_ENV (an unset NODE_ENV is 'development').
Tiers == {"development", "test", "production"}
\* The length of JWT_SECRET; 0 when it is unset or empty.
SecretLengths == {0, 20, MIN_JWT_SECRET_LENGTH - 1, MIN_JWT_SECRET_LENGTH}
\* AUDIT_LOGGING; "" when it is unset or empty.
AuditFlags == {"", "true", "false"}

\* The environment variables the module reads; a BOOLEAN field tells whether
\* the variable is set to a non-empty string.
Envs ==
    [ NODE_ENV : Tiers,
      MONGODB_URI : BOOLEAN,
      MONGODB_TEST_URI : BOOLEAN,
      JWT_SECRET : SecretLengths,
      BCRYPT_ROUNDS : BOOLEAN,
      AUDIT_LOGGING : AuditFlags ]

IS_PRODUCTION_ENVIRONMENT(e) == e.NODE_ENV = "production"

\* Mutant: AUDIT_LOGGING is not among the required variables.
missingVarsWithoutAudit(e) ==
    {v \in {"JWT_SECRET", "BCRYPT_ROUNDS"} :
        \/ v = "JWT_SECRET" /\ e.JWT_SECRET = 0
        \/ v = "BCRYPT_ROUNDS" /\ ~e.BCRYPT_ROUNDS}

\* requiredSecurityVars.filter(varName => !process.env[varName])
missingVars(e) ==
    {v \in {"JWT_SECRET", "BCRYPT_ROUNDS", "AUDIT_LOGGING"} :
        \/ v = "JWT_SECRET" /\ e.JWT_SECRET = 0
        \/ v = "BCRYPT_ROUNDS" /\ ~e.BCRYPT_ROUNDS
        \/ v = "AUDIT_LOGGING" /\ e.AUDIT_LOGGING = ""}

\* validateDatabaseEnvironment: the DatabaseError it throws, or NoThrow.
validateDatabaseEnvironment(e) ==
    IF ~e.MONGODB_URI
    THEN DatabaseError(DATABASE_ERRORS.MISSING_MONGODB_URI, NoError)
    ELSE IF e.NODE_ENV = "test" /\ ~e.MONGODB_TEST_URI
    THEN DatabaseError(DATABASE_ERRORS.MISSING_TEST_URI, NoError)
    ELSE IF IS_PRODUCTION_ENVIRONMENT(e)
    THEN IF missingVars(e) # {}
         THEN DatabaseError(DATABASE_ERRORS.MISSING_PRODUCTION_SECURITY, NoError)
         ELSE IF e.JWT_SECRET # 0 /\ e.JWT_SECRET < MIN_JWT_SECRET_LENGTH
         THEN DatabaseError(DATABASE_ERRORS.WEAK_JWT_SECRET, NoError)
         ELSE NoThrow
    ELSE NoThrow

\* The environments the manager is run in once its module has loaded: the
\* development tier, with audit logging on and off.  (The tier and the
\* security keys are read again only to build the connection options.)
OperatingEnvs ==
    {e \in Envs : /\ e.NODE_ENV = "development"
                  /\ e.MONGODB_URI /\ ~e.MONGODB_TEST_URI
                  /\ e.JWT_SECRET = 0 /\ ~e.BCRYPT_ROUNDS
                  /\ e.AUDIT_LOGGING \in {"true", "false"}}

\* Mutant: the module swallows the validation error.
ModuleInitializationSwallows(error) == [state |-> "loaded", error |-> error]

\* try { validateDatabaseEnvironment() } catch (error) { ...; throw error }
\* at module initialisation: a throw ends the loading of the module.
ModuleInitialization(error) ==
    IF error = NoThrow
    THEN [state |-> "loaded", error |-> NoThrow]
    ELSE [state |-> "failed", error |-> error]

(* ------------------------------- state -------------------------------- *)

VARIABLES
    _isConnected,         \* DatabaseState._isConnected
    _isShuttingDown,      \* DatabaseState._isShuttingDown
    _connectionAttempts,  \* DatabaseState._connectionAttempts
    readyState,           \* mongoose.connection.readyState
    env,                  \* process.env, as the module reads it
    moduleLoad,           \* the initialisation of the module: its state and error
    audit,                \* the audit sink: sequence of audit log entries
    calls,                \* one connectDatabase() activation per caller
    shutdownPc,           \* position of the gracefulShutdown that took the flag
    forceExitTimer,       \* "unset" | "armed" | "cleared" | "fired"
    exitCode,             \* "none" while the process runs, else "0" or "1"
    disconnectCalls,      \* mongoose.disconnect() calls made so far
    timersStarted,        \* forceExitTimer timers set so far
    driverEventCount,     \* driver events delivered so far
    lastDriverEvent,      \* name of the last driver event delivered
    signalCount,          \* termination signals delivered so far
    _lastHealthCheck,     \* DatabaseState._lastHealthCheck (0 is null)
    health,               \* the checkDatabaseHealth() activation
    healthCheckCount,     \* checkDatabaseHealth() calls made so far
    utilCall              \* the last call of a utility function: arguments, result

vars == <<_isConnected, _isShuttingDown, _connectionAttempts, readyState,
          env, moduleLoad, audit, calls, shutdownPc, forceExitTimer, exitCode,
          disconnectCalls, timersStarted, driverEventCount, lastDriverEvent,
          signalCount, _lastHealthCheck, health, healthCheckCount, utilCall>>

\* What the operations of the manager leave alone: the environment, the
\* loaded module and the calls of the utility functions.
moduleVars == <<env, moduleLoad, utilCall>>
dbVars == <<_isConnected, _isShuttingDown, _connectionAttempts>>
shutdownVars == <<shutdownPc, forceExitTimer, exitCode, disconnectCalls, timersStarted>>
\* What a step of connectDatabase or of a driver callback leaves alone of the
\* health check.
healthVars == <<_lastHealthCheck, health, healthCheckCount>>

\* Mutant: the getter trusts the flag alone.
isConnectedFlagOnly == _isConnected

\* DatabaseState.isConnected (getter)
isConnected == _isConnected /\ readyState = 1

\* CONNECTION_READY_STATES[readyState] || 'unknown'
CONNECTION_READY_STATES ==
    [rs \in 0..3 |-> CASE rs = 0 -> "disconnected" [] rs = 1 -> "connected"
                       [] rs = 2 -> "connecting"   [] rs = 3 -> "disconnecting"]

\* getConnectionStatus(): a read of the state, it writes nothing.
getConnectionStatus ==
    [ isConnected |-> isConnected,
      readyState |-> readyState,
      readyStateDescription |-> CONNECTION_READY_STATES[readyState] ]

\* process.env.AUDIT_LOGGING === 'true'
auditEnabled == env.AUDIT_LOGGING = "true"

AuditEntry(event, details) == [event |-> event, details |-> details]

\* Mutant: the event is dropped.
logAuditEventDropped(sink, event, details) == sink

\* logAuditEvent: the sink after logging one event.
logAuditEvent(sink, event, details) ==
    IF auditEnabled THEN Append(sink, AuditEntry(event, details)) ELSE sink

IdleCall ==
    [ pc |-> "idle",             \* idle | connecting | sleeping | returned | threw
      retries |-> 0,
      retryDelay |-> 0,
      lastError |-> NoError,     \* let lastError
      made |-> 0,                \* mongoose.connect calls made by this activation
      startAttempts |-> 0,       \* _connectionAttempts when the call was made
      overlapped |-> FALSE,      \* another activation ran during this one
      reused |-> FALSE,          \* returned the existing connection at once
      sleepArg |-> 0,            \* attempt number passed to calculateRetryDelay
      sleepDelay |-> 0,          \* delay of the current sleep
      afterSleep |-> FALSE,      \* the last thing this activation did was sleep
      retriedFatal |-> FALSE,    \* attempted again after a non-recoverable error
      failedLogged |-> FALSE,    \* this activation logged CONNECTION_FAILED
      attemptsAtThrow |-> 0,     \* _connectionAttempts when it threw
      thrown |-> NoThrow ]       \* the DatabaseError it threw

NoResult == [isHealthy |-> FALSE, error |-> "<no result>"]

\* No utility function has been called.
NoCall == [fn |-> "none"]

IdleHealth ==
    [ pc |-> "idle",             \* idle | probing | returned | threw
      connectedAtCall |-> FALSE, \* dbState.isConnected && readyState === 1 at the call
      pinged |-> FALSE,          \* db.admin().ping() was called
      outcome |-> "none",        \* which way the call ended
      lastAtCall |-> 0,          \* _lastHealthCheck at the call
      lastAtReturn |-> 0,        \* _lastHealthCheck when it returned
      result |-> NoResult ]      \* the HealthCheckResult returned

Running(c) == calls[c].pc \in {"connecting", "sleeping"}

\* Mutant: the process goes on after process.exit.
AliveAfterExit == moduleLoad.state = "loaded"

\* The process runs: the module has loaded and process.exit was not called.
Alive == exitCode = "none" /\ moduleLoad.state = "loaded"

\* process.exit(code): the process ends and its pending activations with it.
ProcessExit(code) ==
    /\ exitCode' = code
    /\ calls' = [c \in Callers |-> IdleCall]
    /\ health' = IdleHealth

\* Mutant: the shutdown flag starts set.
DatabaseStateShuttingDown ==
    [_isConnected |-> FALSE, _isShuttingDown |-> TRUE, _connectionAttempts |-> 0,
     _lastHealthCheck |-> 0]

\* class DatabaseState: the field initialisers of the one instance, dbState.
DatabaseState ==
    [_isConnected |-> FALSE, _isShuttingDown |-> FALSE, _connectionAttempts |-> 0,
     _lastHealthCheck |-> 0]

\* The state of the manager when its module starts to load.
StartState ==
    /\ _isConnected = DatabaseState._isConnected
    /\ _isShuttingDown = DatabaseState._isShuttingDown
    /\ _connectionAttempts = DatabaseState._connectionAttempts
    /\ readyState = 0
    /\ audit = <<>>
    /\ calls = [c \in Callers |-> IdleCall]
    /\ shutdownPc = "none"
    /\ forceExitTimer = "unset"
    /\ exitCode = "none"
    /\ disconnectCalls = 0
    /\ timersStarted = 0
    /\ driverEventCount = 0
    /\ lastDriverEvent = "none"
    /\ signalCount = 0
    /\ _lastHealthCheck = DatabaseState._lastHealthCheck
    /\ health = IdleHealth
    /\ healthCheckCount = 0
    /\ utilCall = NoCall

\* The state after the module has loaded.
Init ==
    /\ env \in OperatingEnvs
    /\ moduleLoad = ModuleInitialization(validateDatabaseEnvironment(env))
    /\ StartState

\* The process starts: the module has yet to validate its environment.
ConfigInit ==
    /\ env \in Envs
    /\ moduleLoad = [state |-> "loading", error |-> NoThrow]
    /\ StartState

\* The module initialisation: validation, then the rest of the module.
LoadModule ==
    /\ exitCode = "none"
    /\ moduleLoad.state = "loading"
    /\ moduleLoad' = ModuleInitialization(validateDatabaseEnvironment(env))
    /\ UNCHANGED <<dbVars, readyState, env, utilCall, audit, calls, shutdownVars,
                   driverEventCount, lastDriverEvent, signalCount, healthVars>>

(* --------------------------- connectDatabase -------------------------- *)

\* Mutant: the success path forgets to reset the counter.
resetAttemptsKeeps(attempts) == attempts

\* DatabaseState.resetAttempts
resetAttempts(attempts) == 0

\* DatabaseState.incrementAttempts
incrementAttempts(attempts) == attempts + 1

\* Mutant: an off-by-one loop test (<= for <).
AttemptsRemainOffByOne(attempts, retries) == attempts <= retries

\* while (dbState.connectionAttempts < retries), also the test in the catch block
AttemptsRemain(attempts, retries) == attempts < retries

\* The error wrapped by the throw after the loop:
\* lastError instanceof Error ? lastError : new Error(safeErrorMessage(lastError))
LastErrorOrUnknown(lastError) == IF lastError = NoError THEN UnknownError ELSE lastError

\* mongoose.connect() is called: the driver starts connecting unless it already
\* holds a connection.
DriverConnecting(rs) == IF rs = 0 THEN 2 ELSE rs

\* One pass from the loop test to the next await (mongoose.connect) or to the
\* throw after the loop, for activation c whose record is cur; others is the
\* record of every other activation after this step.
LoopStep(c, cur, others) ==
    IF AttemptsRemain(_connectionAttempts, cur.retries)
    THEN /\ _connectionAttempts' = incrementAttempts(_connectionAttempts)
         /\ readyState' = DriverConnecting(readyState)
         /\ calls' = [others EXCEPT ![c] =
                [cur EXCEPT !.pc = "connecting",
                            !.made = @ + 1,
                            !.afterSleep = FALSE,
                            !.retriedFatal = @ \/ (cur.lastError # NoError
                                                  /\ ~isRecoverableError(cur.lastError))]]
    ELSE /\ calls' = [others EXCEPT ![c] =
                [cur EXCEPT !.pc = "threw",
                            !.attemptsAtThrow = _connectionAttempts,
                            !.thrown = DatabaseError(DATABASE_ERRORS.CONNECTION_TIMEOUT,
                                                     LastErrorOrUnknown(cur.lastError))]]
         /\ UNCHANGED <<_connectionAttempts, readyState>>

\* Mutant: the already-connected test is left out.
ReuseConnectionNever == FALSE

\* if (dbState.isConnected) at the head of connectDatabase
ReuseConnection == isConnected

\* connectDatabase(options) up to its first await.  The callers are
\* interchangeable: they make their calls in the order of their numbers.
ConnectCall(c, retries, retryDelay) ==
    /\ Alive
    /\ calls[c].pc = "idle"
    /\ \A o \in Callers : o < c => calls[o].pc # "idle"
    /\ IF ReuseConnection
       THEN /\ calls' = [calls EXCEPT ![c] =
                   [@ EXCEPT !.pc = "returned", !.reused = TRUE,
                             !.retries = retries, !.retryDelay = retryDelay,
                             !.startAttempts = _connectionAttempts]]
            /\ UNCHANGED <<_connectionAttempts, readyState>>
       ELSE LET overlap == \E o \in Callers \ {c} : Running(o)
                cur == [calls[c] EXCEPT !.retries = retries,
                                        !.retryDelay = retryDelay,
                                        !.startAttempts = _connectionAttempts,
                                        !.overlapped = overlap]
                others == [o \in Callers |->
                             IF o # c /\ Running(o)
                             THEN [calls[o] EXCEPT !.overlapped = TRUE]
                             ELSE calls[o]]
            IN  LoopStep(c, cur, others)
    /\ UNCHANGED <<_isConnected, _isShuttingDown, moduleVars, audit,
                   shutdownVars, driverEventCount, lastDriverEvent, signalCount,
                   healthVars>>

\* mongoose.connect() resolves: the rest of the try block.
AttemptSucceeds(c) ==
    /\ Alive
    /\ calls[c].pc = "connecting"
    /\ readyState' = 1
    /\ _isConnected' = TRUE
    /\ _connectionAttempts' = resetAttempts(_connectionAttempts)
    /\ audit' = logAuditEvent(audit, "CONNECTION_ESTABLISHED", "Connected to database")
    /\ calls' = [calls EXCEPT ![c] = [@ EXCEPT !.pc = "returned", !.afterSleep = FALSE]]
    /\ UNCHANGED <<_isShuttingDown, moduleVars, shutdownVars,
                   driverEventCount, lastDriverEvent, signalCount, healthVars>>

\* mongoose.connect() rejects with error: the catch block, up to the backoff
\* sleep or to the throw of the classified error.
AttemptFails(c, error, k) ==
    /\ Alive
    /\ calls[c].pc = "connecting"
    /\ readyState' = IF readyState = 2 /\ ~\E o \in Callers \ {c} : calls[o].pc = "connecting"
                     THEN 0 ELSE readyState
    /\ IF AttemptsRemain(_connectionAttempts, calls[c].retries)
       THEN /\ calls' = [calls EXCEPT ![c] =
                   [@ EXCEPT !.pc = "sleeping",
                             !.lastError = error,
                             !.afterSleep = TRUE,
                             !.sleepArg = _connectionAttempts,
                             !.sleepDelay = calculateRetryDelay(_connectionAttempts,
                                                calls[c].retryDelay, DEFAULT_MAX_DELAY, k)]]
            /\ UNCHANGED audit
       ELSE /\ k = 0
            /\ audit' = logAuditEvent(audit, "CONNECTION_FAILED", "Failed after attempts")
            /\ calls' = [calls EXCEPT ![c] =
                   [@ EXCEPT !.pc = "threw",
                             !.lastError = error,
                             !.afterSleep = FALSE,
                             !.failedLogged = TRUE,
                             !.attemptsAtThrow = _connectionAttempts,
                             !.thrown = classifyConnectionError(error)]]
    /\ UNCHANGED <<dbVars, moduleVars, shutdownVars, driverEventCount,
                   lastDriverEvent, signalCount, healthVars>>

\* The backoff delay elapses: back to the loop test.
SleepEnds(c) ==
    /\ Alive
    /\ calls[c].pc = "sleeping"
    /\ LoopStep(c, [calls[c] EXCEPT !.sleepArg = 0, !.sleepDelay = 0], calls)
    /\ UNCHANGED <<_isConnected, _isShuttingDown, moduleVars, audit,
                   shutdownVars, driverEventCount, lastDriverEvent, signalCount,
                   healthVars>>

(* ----------------------- driver event callbacks ----------------------- *)

DriverEventAllowed == Alive /\ driverEventCount < MaxDriverEvents

\* Mutant: a driver callback also resets the attempt counter.
HandleDriverEventResetsAttempts(name, connected, event, details) ==
    /\ _isConnected' = connected
    /\ _connectionAttempts' = 0
    /\ audit' = logAuditEvent(audit, event, details)
    /\ driverEventCount' = driverEventCount + 1
    /\ lastDriverEvent' = name
    /\ UNCHANGED <<_isShuttingDown, moduleVars, calls,
                   shutdownVars, signalCount, healthVars>>

\* What a callback of registerConnectionEventHandlers does: set the flag, audit.
HandleDriverEvent(name, connected, event, details) ==
    /\ _isConnected' = connected
    /\ audit' = logAuditEvent(audit, event, details)
    /\ driverEventCount' = driverEventCount + 1
    /\ lastDriverEvent' = name
    /\ UNCHANGED <<_isShuttingDown, _connectionAttempts, moduleVars, calls,
                   shutdownVars, signalCount, healthVars>>

\* The callback registered with mongoose.connection.on('connected').
ConnectedCallback ==
    /\ readyState # 1
    /\ readyState' = 1
    /\ HandleDriverEvent("connected", TRUE, "CONNECTION_ESTABLISHED", "MongoDB connection established")

\* mongoose.connection.on('connected')
OnConnected == DriverEventAllowed /\ ConnectedCallback

\* mongoose.connection.on('error'): the driver keeps its ready-state.
OnError ==
    /\ DriverEventAllowed
    /\ UNCHANGED readyState
    /\ HandleDriverEvent("error", FALSE, "SYSTEM_ERROR", "driver error")

\* The callback registered with mongoose.connection.on('disconnected').
DisconnectedCallback ==
    /\ readyState # 0
    /\ readyState' = 0
    /\ HandleDriverEvent("disconnected", FALSE, "CONNECTION_LOST", "MongoDB disconnected")

\* mongoose.connection.on('disconnected')
OnDisconnected == DriverEventAllowed /\ DisconnectedCallback

\* The callback registered with mongoose.connection.on('reconnected').
ReconnectedCallback ==
    /\ readyState # 1
    /\ readyState' = 1
    /\ HandleDriverEvent("reconnected", TRUE, "CONNECTION_RESTORED", "MongoDB reconnected successfully")

\* mongoose.connection.on('reconnected')
OnReconnected == DriverEventAllowed /\ ReconnectedCallback

\* The callback registered with mongoose.connection.on('close').
CloseCallback ==
    /\ readyState' = 0
    /\ HandleDriverEvent("close", FALSE, "CONNECTION_TERMINATED", "MongoDB connection closed")

\* mongoose.connection.on('close')
OnClose == DriverEventAllowed /\ CloseCallback

(* -------------------------- gracefulShutdown -------------------------- *)

\* Mutant: the forced exit reports success.
ForcedExitStatusSuccess == "0"

\* process.exit(1) in the forceExitTimer callback
ForcedExitStatus == "1"

\* Mutant: a shutdown error exits with success.
ShutdownErrorExitStatusSuccess == "0"

\* process.exit(1) in the catch block of gracefulShutdown
ShutdownErrorExitStatus == "1"

\* Mutant: the timer is left armed.
clearTimeoutForgotten(timer) == timer

\* clearTimeout(forceExitTimer)
clearTimeout(timer) == "cleared"

\* Mutant: the deadline timer is never set.
setTimeoutForgotten(timer) == timer

\* setTimeout(..., DATABASE_CONFIG.SHUTDOWN_TIMEOUT_MS)
setTimeout(timer) == "armed"

\* Mutant: the re-entrancy guard is left out.
ShutdownInProgressIgnored == FALSE

\* if (dbState.isShuttingDown) at the head of gracefulShutdown
ShutdownInProgress == _isShuttingDown

\* process.on(signal, () => gracefulShutdown(signal)): gracefulShutdown up to
\* its first real await.  disconnectDatabase() returns at once when the
\* manager is not connected, and the shutdown then completes in the same turn.
Signal(signal) ==
    /\ Alive
    /\ signalCount < MaxSignals
    /\ signalCount' = signalCount + 1
    /\ IF ShutdownInProgress
       THEN UNCHANGED <<dbVars, readyState, audit, shutdownVars, calls, health>>
       ELSE /\ _isShuttingDown' = TRUE
            /\ UNCHANGED <<_isConnected, _connectionAttempts>>
            /\ LET initiated == logAuditEvent(audit, "GRACEFUL_SHUTDOWN_INITIATED",
                                              "Graceful shutdown initiated by signal")
               IN  IF ~isConnected
                   THEN /\ audit' = logAuditEvent(initiated, "GRACEFUL_SHUTDOWN_COMPLETED",
                                        "Graceful shutdown completed successfully")
                        /\ forceExitTimer' = clearTimeout(setTimeout(forceExitTimer))
                        /\ timersStarted' = timersStarted + 1
                        /\ shutdownPc' = "completed"
                        /\ ProcessExit("0")
                        /\ UNCHANGED <<readyState, disconnectCalls>>
                   ELSE /\ audit' = initiated
                        /\ forceExitTimer' = setTimeout(forceExitTimer)
                        /\ timersStarted' = timersStarted + 1
                        /\ shutdownPc' = "disconnecting"
                        /\ readyState' = 3
                        /\ disconnectCalls' = disconnectCalls + 1
                        /\ UNCHANGED <<exitCode, calls, health>>
    /\ UNCHANGED <<moduleVars, driverEventCount, lastDriverEvent,
                   _lastHealthCheck, healthCheckCount>>

\* mongoose.disconnect() resolves: the rest of disconnectDatabase, then the
\* rest of gracefulShutdown's try block.
DisconnectSucceeds ==
    /\ Alive
    /\ shutdownPc = "disconnecting"
    /\ readyState' = 0
    /\ _isConnected' = FALSE
    /\ audit' = logAuditEvent(
                    logAuditEvent(audit, "CONNECTION_TERMINATED",
                                  "Database connection closed successfully"),
                    "GRACEFUL_SHUTDOWN_COMPLETED",
                    "Graceful shutdown completed successfully")
    /\ forceExitTimer' = clearTimeout(forceExitTimer)
    /\ shutdownPc' = "completed"
    /\ ProcessExit("0")
    /\ UNCHANGED <<_isShuttingDown, _connectionAttempts, moduleVars,
                   disconnectCalls, timersStarted, driverEventCount,
                   lastDriverEvent, signalCount, _lastHealthCheck, healthCheckCount>>

\* Mutant: a failed disconnect clears the connected flag.
DisconnectFailsClearsFlag ==
    /\ Alive
    /\ shutdownPc = "disconnecting"
    /\ audit' = logAuditEvent(
                    logAuditEvent(audit, "SYSTEM_ERROR", "disconnect error"),
                    "SYSTEM_ERROR", "disconnect error")
    /\ shutdownPc' = "failed"
    /\ ProcessExit(ShutdownErrorExitStatus)
    /\ _isConnected' = FALSE
    /\ UNCHANGED <<_isShuttingDown, _connectionAttempts, readyState, moduleVars, forceExitTimer,
                   disconnectCalls, timersStarted, driverEventCount,
                   lastDriverEvent, signalCount, _lastHealthCheck, healthCheckCount>>

\* mongoose.disconnect() rejects: the catch block of disconnectDatabase, then
\* the catch block of gracefulShutdown.
DisconnectFails ==
    /\ Alive
    /\ shutdownPc = "disconnecting"
    /\ audit' = logAuditEvent(
                    logAuditEvent(audit, "SYSTEM_ERROR", "disconnect error"),
                    "SYSTEM_ERROR", "disconnect error")
    /\ shutdownPc' = "failed"
    /\ ProcessExit(ShutdownErrorExitStatus)
    /\ UNCHANGED <<dbVars, readyState, moduleVars, forceExitTimer,
                   disconnectCalls, timersStarted, driverEventCount,
                   lastDriverEvent, signalCount, _lastHealthCheck, healthCheckCount>>

\* The forceExitTimer callback.
ForceExit ==
    /\ Alive
    /\ forceExitTimer = "armed"
    /\ audit' = logAuditEvent(audit, "EMERGENCY_SHUTDOWN", "Forced shutdown due to timeout")
    /\ forceExitTimer' = "fired"
    /\ ProcessExit(ForcedExitStatus)
    /\ UNCHANGED <<dbVars, readyState, moduleVars, shutdownPc,
                   disconnectCalls, timersStarted, driverEventCount,
                   lastDriverEvent, signalCount, _lastHealthCheck, healthCheckCount>>

(* ------------------------- checkDatabaseHealth ------------------------ *)

\* mongoose.connection.db at the call: the handle, or undefined.
DbHandles == BOOLEAN
\* db.admin().ping(): returns a pending promise, or throws at the call.
PingCalls == {"pending", "throws"}

\* Mutant: the catch block rethrows.
HealthCatchRethrows(cur, outcome, error) ==
    [cur EXCEPT !.pc = "threw", !.outcome = outcome,
                !.lastAtReturn = _lastHealthCheck]

\* catch (error) { return { isHealthy: false, responseTime, error: safeErrorMessage(error) } }
HealthCatch(cur, outcome, error) ==
    [cur EXCEPT !.pc = "returned", !.outcome = outcome,
                !.lastAtReturn = _lastHealthCheck,
                !.result = [isHealthy |-> FALSE, error |-> error]]

\* Mutant: the health check is never recorded.
updateHealthCheckSkipped(last, now) == last

\* DatabaseState.updateHealthCheck: this._lastHealthCheck = new Date().  Only
\* health checks read the clock: the time of a check is its number.
updateHealthCheck(last, now) == now

\* Mutant: the connection test is left out.
HealthFailFastNever == FALSE

\* if (!dbState.isConnected || mongoose.connection.readyState !== 1)
HealthFailFast == ~isConnected \/ readyState # 1

\* Mutant: no timeout is raced against the ping.
timeoutPromiseNever(pc) == FALSE

\* delay(DATABASE_CONFIG.HEALTH_CHECK_TIMEOUT_MS).then(() => { throw ... }):
\* pending while the race is awaited.
timeoutPromise(pc) == pc = "probing"

\* checkDatabaseHealth() up to its await of the race, or to its early return.
CheckHealthCall(db, ping) ==
    /\ Alive
    /\ health.pc \in {"idle", "returned"}
    /\ healthCheckCount < MaxHealthChecks
    /\ healthCheckCount' = healthCheckCount + 1
    /\ LET cur == [IdleHealth EXCEPT !.connectedAtCall = isConnected /\ readyState = 1,
                                     !.lastAtCall = _lastHealthCheck]
       IN  health' =
             IF HealthFailFast
             THEN [cur EXCEPT !.pc = "returned", !.outcome = "notConnected",
                              !.lastAtReturn = _lastHealthCheck,
                              !.result = [isHealthy |-> FALSE,
                                          error |-> "Database is not connected"]]
             ELSE IF ~db
             THEN [cur EXCEPT !.pc = "returned", !.outcome = "noHandle",
                              !.lastAtReturn = _lastHealthCheck,
                              !.result = [isHealthy |-> FALSE,
                                          error |-> "Database connection not available"]]
             ELSE IF ping = "throws"
             THEN HealthCatch([cur EXCEPT !.pinged = TRUE], "pingError", "ping error")
             ELSE [cur EXCEPT !.pc = "probing", !.pinged = TRUE]
    /\ UNCHANGED <<dbVars, readyState, moduleVars, audit, calls, shutdownVars,
                   driverEventCount, lastDriverEvent, signalCount, _lastHealthCheck>>

\* The ping resolves first: the rest of the try block.
PingResolves ==
    /\ Alive
    /\ health.pc = "probing"
    /\ _lastHealthCheck' = updateHealthCheck(_lastHealthCheck, healthCheckCount)
    /\ health' = [health EXCEPT !.pc = "returned", !.outcome = "pingOk",
                                !.lastAtReturn = _lastHealthCheck',
                                !.result = [isHealthy |-> TRUE, error |-> "none"]]
    /\ UNCHANGED <<dbVars, readyState, moduleVars, audit, calls, shutdownVars,
                   driverEventCount, lastDriverEvent, signalCount, healthCheckCount>>

\* Mutant: a rejected ping marks the manager disconnected.
PingRejectsMarksDisconnected ==
    /\ Alive
    /\ health.pc = "probing"
    /\ _isConnected' = FALSE
    /\ health' = HealthCatch(health, "pingError", "ping error")
    /\ UNCHANGED <<_isShuttingDown, _connectionAttempts, readyState, moduleVars,
                   audit, calls, shutdownVars, driverEventCount, lastDriverEvent,
                   signalCount, _lastHealthCheck, healthCheckCount>>

\* The ping rejects first: the catch block.
PingRejects ==
    /\ Alive
    /\ health.pc = "probing"
    /\ health' = HealthCatch(health, "pingError", "ping error")
    /\ UNCHANGED <<dbVars, readyState, moduleVars, audit, calls, shutdownVars,
                   driverEventCount, lastDriverEvent, signalCount,
                   _lastHealthCheck, healthCheckCount>>

\* The timeout promise rejects first: the catch block.
HealthTimeout ==
    /\ Alive
    /\ timeoutPromise(health.pc)
    /\ health' = HealthCatch(health, "timeout", "Health check timeout")
    /\ UNCHANGED <<dbVars, readyState, moduleVars, audit, calls, shutdownVars,
                   driverEventCount, lastDriverEvent, signalCount,
                   _lastHealthCheck, healthCheckCount>>

(* --------------------------- specification ---------------------------- *)

Next ==
    \/ \E c \in Callers, r \in RetryChoices, d \in RetryDelayChoices : ConnectCall(c, r, d)
    \/ \E c \in Callers : AttemptSucceeds(c)
    \/ \E c \in Callers, e \in RawErrors, k \in JitterDraws : AttemptFails(c, e, k)
    \/ \E c \in Callers : SleepEnds(c)
    \/ OnConnected
    \/ OnError
    \/ OnDisconnected
    \/ OnReconnected
    \/ OnClose
    \/ \E s \in Signals : Signal(s)
    \/ DisconnectSucceeds
    \/ DisconnectFails
    \/ ForceExit

Spec == Init /\ [][Next]_vars

\* The event loop runs a timer's callback once its delay has elapsed: an armed
\* forceExitTimer fires unless the process exits first.
FairSpec == Spec /\ WF_vars(ForceExit)

\* The health monitor.  checkDatabaseHealth writes only _lastHealthCheck,
\* which no other operation reads; it is run here next to one connectDatabase
\* caller, the driver events and the shutdown.
HealthNext ==
    \/ \E r \in RetryChoices, d \in RetryDelayChoices : ConnectCall(1, r, d)
    \/ AttemptSucceeds(1)
    \/ \E e \in RawErrors, k \in JitterDraws : AttemptFails(1, e, k)
    \/ SleepEnds(1)
    \/ OnConnected
    \/ OnError
    \/ OnDisconnected
    \/ OnReconnected
    \/ OnClose
    \/ \E s \in Signals : Signal(s)
    \/ DisconnectSucceeds
    \/ DisconnectFails
    \/ ForceExit
    \/ \E db \in DbHandles, ping \in PingCalls : CheckHealthCall(db, ping)
    \/ PingResolves
    \/ PingRejects
    \/ HealthTimeout

HealthSpec == Init /\ [][HealthNext]_vars

\* The timeout promise of a pending race settles once its delay has elapsed.
HealthFairSpec == HealthSpec /\ WF_vars(HealthTimeout)

\* The start of the process: the module is loaded with any environment, and
\* only then can its exports be called and its signal handlers run.
ConfigNext ==
    \/ LoadModule
    \/ \E d \in RetryDelayChoices : ConnectCall(1, 1, d)
    \/ AttemptSucceeds(1)
    \/ \E e \in RawErrors : AttemptFails(1, e, 0)
    \/ \E s \in Signals : Signal(s)
    \/ DisconnectSucceeds
    \/ DisconnectFails
    \/ ForceExit
    \/ \E db \in DbHandles, ping \in PingCalls : CheckHealthCall(db, ping)
    \/ PingResolves
    \/ PingRejects
    \/ HealthTimeout

ConfigSpec == ConfigInit /\ [][ConfigNext]_vars

\* The error classification: one connectDatabase call with a single attempt,
\* which fails with any error message and throws the classified error.
ClassifyNext ==
    \/ \E d \in RetryDelayChoices : ConnectCall(1, 1, d)
    \/ \E e \in ErrorMessages : AttemptFails(1, e, 0)

ClassifySpec == Init /\ [][ClassifyNext]_vars

\* One connection followed through its life, with the driver delivering the
\* events of each operation as mongoose does: 'connected' before
\* mongoose.connect() resolves, 'disconnected' then 'close' before
\* mongoose.disconnect() resolves; in between the connection may drop
\* ('disconnected') and come back ('reconnected') once.
DriverEmitsConnected ==
    /\ Alive
    /\ calls[1].pc = "connecting"
    /\ readyState = 2
    /\ ConnectedCallback

ConnectResolves == readyState = 1 /\ AttemptSucceeds(1)

ConnectRejects(error, k) == readyState = 2 /\ AttemptFails(1, error, k)

ConnectionDrops ==
    /\ Alive
    /\ calls[1].pc = "returned"
    /\ shutdownPc = "none"
    /\ lastDriverEvent = "connected"
    /\ DisconnectedCallback

ConnectionComesBack ==
    /\ Alive
    /\ shutdownPc = "none"
    /\ lastDriverEvent = "disconnected"
    /\ ReconnectedCallback

DriverEmitsDisconnected ==
    /\ Alive
    /\ shutdownPc = "disconnecting"
    /\ readyState = 3
    /\ DisconnectedCallback

DriverEmitsClose ==
    /\ Alive
    /\ shutdownPc = "disconnecting"
    /\ readyState = 0
    /\ lastDriverEvent = "disconnected"
    /\ CloseCallback

DisconnectResolves == lastDriverEvent = "close" /\ DisconnectSucceeds

DisconnectRejects == readyState = 3 /\ DisconnectFails

ScriptNext ==
    \/ \E r \in RetryChoices, d \in RetryDelayChoices : ConnectCall(1, r, d)
    \/ DriverEmitsConnected
    \/ ConnectResolves
    \/ \E e \in RawErrors, k \in JitterDraws : ConnectRejects(e, k)
    \/ SleepEnds(1)
    \/ ConnectionDrops
    \/ ConnectionComesBack
    \/ \E s \in Signals : Signal(s)
    \/ DriverEmitsDisconnected
    \/ DriverEmitsClose
    \/ DisconnectResolves
    \/ DisconnectRejects
    \/ ForceExit

ScriptSpec == Init /\ [][ScriptNext]_vars

(* ------------------------- utility functions -------------------------- *)

\* Everything a call of a utility function of errors.ts leaves alone.
managerVars ==
    <<dbVars, readyState, env, moduleLoad, audit, calls, shutdownVars,
      driverEventCount, lastDriverEvent, signalCount, healthVars>>

\* isRecoverableError(error) is called (RECOVERY_STRATEGIES.CONNECTION_RETRY.canRecover).
CallIsRecoverableError(error) ==
    /\ Alive
    /\ utilCall' = [fn |-> "isRecoverableError", error |-> error,
                    result |-> isRecoverableError(error)]
    /\ UNCHANGED managerVars

\* classifyConnectionError(error) is called.
CallClassifyConnectionError(error) ==
    /\ Alive
    /\ utilCall' = [fn |-> "classifyConnectionError", error |-> error,
                    result |-> classifyConnectionError(error)]
    /\ UNCHANGED managerVars

\* The arguments calculateRetryDelay is called with: attempt numbers from 1,
\* small and usual base delays, small and usual maximum delays.
AttemptNumbers == 1..MaxAttemptNumber
BaseDelays == {0, 1, 3, DEFAULT_BASE_DELAY, RETRY_DELAY_MS}
MaxDelays == {0, 2, DEFAULT_BASE_DELAY, DEFAULT_MAX_DELAY}

\* calculateRetryDelay(attempt, baseDelay, maxDelay) is called and
\* Math.random() returns k / JitterSteps.
CallCalculateRetryDelay(attempt, baseDelay, maxDelay, k) ==
    /\ Alive
    /\ utilCall' = [fn |-> "calculateRetryDelay", attempt |-> attempt,
                    baseDelay |-> baseDelay, maxDelay |-> maxDelay, random |-> k,
                    result |-> calculateRetryDelay(attempt, baseDelay, maxDelay, k)]
    /\ UNCHANGED managerVars

\* The instants of new Date(), and Date.prototype.toISOString().
Times == 1..MaxTime
toISOString(t) == <<"ISO-8601", t>>

\* The errors wrapped as originalError: driver errors, or none.
Causes == RawErrors \cup {NoError}

\* The DatabaseError object as its methods read it: the fields of
\* DatabaseError with the name, the timestamp of the construction and the
\* stack (which starts with the name and the message of the object itself).
DatabaseErrorAt(errorConfig, originalError, now) ==
    [ name |-> "DatabaseError",
      message |-> errorConfig.message,
      code |-> errorConfig.code,
      severity |-> errorConfig.severity,
      action |-> errorConfig.action,
      timestamp |-> now,
      stack |-> <<"DatabaseError", errorConfig.message>>,
      originalError |-> originalError ]

\* A plain Error with a driver message, and a thrown string.
PlainError(message) ==
    [name |-> "Error", message |-> message, stack |-> <<"Error", message>>]
ThrownString(message) == [name |-> "<string>", message |-> message]

\* Mutant: the projection keeps the wrapped error.
toSafeObjectWithCause(error) ==
    [ name |-> error.name,
      message |-> error.message,
      code |-> error.code,
      severity |-> error.severity,
      action |-> error.action,
      timestamp |-> toISOString(error.timestamp),
      stack |-> error.stack,
      originalError |-> error.originalError ]

\* DatabaseError.toSafeObject()
toSafeObject(error) ==
    [ name |-> error.name,
      message |-> error.message,
      code |-> error.code,
      severity |-> error.severity,
      action |-> error.action,
      timestamp |-> toISOString(error.timestamp),
      stack |-> error.stack ]

\* DatabaseError.getUserMessage()
getUserMessage(error) ==
    CASE error.severity = "CRITICAL" ->
           "A critical system error occurred. Please contact support immediately."
      [] error.severity = "HIGH" ->
           "A system error occurred. Please try again or contact support if the problem persists."
      [] error.severity = "MEDIUM" ->
           "A temporary issue occurred. Please try again in a few moments."
      [] OTHER -> "An error occurred. Please try again."

\* sanitizeErrorForLogging(error) at the instant now
sanitizeErrorForLogging(error, now) ==
    IF error.name = "DatabaseError"
    THEN toSafeObject(error)
    ELSE IF error.name = "Error"
    THEN [ name |-> error.name, message |-> error.message, stack |-> error.stack,
           timestamp |-> toISOString(now) ]
    ELSE [ error |-> error.message, timestamp |-> toISOString(now), type |-> "string" ]

\* The errors the manager logs: DatabaseErrors of every entry, built at any
\* instant around any cause, plain driver errors and thrown strings.
LoggedErrors ==
    {DatabaseErrorAt(DATABASE_ERRORS[k], c, t) :
        k \in DOMAIN DATABASE_ERRORS, c \in Causes, t \in Times}
    \cup {PlainError(m) : m \in RawErrors}
    \cup {ThrownString(m) : m \in RawErrors}

CallToSafeObject(k, cause, t) ==
    /\ Alive
    /\ utilCall' = [fn |-> "toSafeObject", errorConfig |-> k,
                    error |-> DatabaseErrorAt(DATABASE_ERRORS[k], cause, t),
                    result |-> toSafeObject(DatabaseErrorAt(DATABASE_ERRORS[k], cause, t))]
    /\ UNCHANGED managerVars

CallGetUserMessage(k, cause, t) ==
    /\ Alive
    /\ utilCall' = [fn |-> "getUserMessage", errorConfig |-> k,
                    error |-> DatabaseErrorAt(DATABASE_ERRORS[k], cause, t),
                    result |-> getUserMessage(DatabaseErrorAt(DATABASE_ERRORS[k], cause, t))]
    /\ UNCHANGED managerVars

CallSanitizeErrorForLogging(error, now) ==
    /\ Alive
    /\ utilCall' = [fn |-> "sanitizeErrorForLogging", error |-> error, now |-> now,
                    result |-> sanitizeErrorForLogging(error, now)]
    /\ UNCHANGED managerVars

\* DATABASE_CONFIG: the pool sizes.
DATABASE_CONFIG ==
    [ PRODUCTION_MAX_POOL_SIZE |-> 10,
      PRODUCTION_MIN_POOL_SIZE |-> 2,
      DEVELOPMENT_MAX_POOL_SIZE |-> 20,
      DEVELOPMENT_MIN_POOL_SIZE |-> 5 ]

\* options.enableCompression of connectDatabase: not given, true or false.
CompressionChoices == {"unset", "true", "false"}

\* enableCompression = IS_PRODUCTION_ENVIRONMENT (the default of the parameter)
enableCompressionOf(e, choice) ==
    IF choice = "unset" THEN IS_PRODUCTION_ENVIRONMENT(e) ELSE choice = "true"

\* Mutant: the development pool sizes are used in every tier.
buildMongooseConnectionOptionsOnePool(e, enableCompression) ==
    [ retryWrites |-> TRUE,
      w |-> "majority",
      readPreference |-> "primary",
      maxPoolSize |-> DATABASE_CONFIG.DEVELOPMENT_MAX_POOL_SIZE,
      minPoolSize |-> DATABASE_CONFIG.DEVELOPMENT_MIN_POOL_SIZE,
      autoIndex |-> ~IS_PRODUCTION_ENVIRONMENT(e),
      tls |-> IS_PRODUCTION_ENVIRONMENT(e),
      tlsInsecure |-> ~IS_PRODUCTION_ENVIRONMENT(e),
      compressors |-> IF enableCompression /\ IS_PRODUCTION_ENVIRONMENT(e)
                      THEN <<"zlib">> ELSE <<>> ]

\* buildMongooseConnectionOptions; compressors is <<>> where the code leaves
\* the key out (the timeouts, which no tier changes, are left out).
buildMongooseConnectionOptions(e, enableCompression) ==
    [ retryWrites |-> TRUE,
      w |-> "majority",
      readPreference |-> "primary",
      maxPoolSize |-> IF IS_PRODUCTION_ENVIRONMENT(e)
                      THEN DATABASE_CONFIG.PRODUCTION_MAX_POOL_SIZE
                      ELSE DATABASE_CONFIG.DEVELOPMENT_MAX_POOL_SIZE,
      minPoolSize |-> IF IS_PRODUCTION_ENVIRONMENT(e)
                      THEN DATABASE_CONFIG.PRODUCTION_MIN_POOL_SIZE
                      ELSE DATABASE_CONFIG.DEVELOPMENT_MIN_POOL_SIZE,
      autoIndex |-> ~IS_PRODUCTION_ENVIRONMENT(e),
      tls |-> IS_PRODUCTION_ENVIRONMENT(e),
      tlsInsecure |-> ~IS_PRODUCTION_ENVIRONMENT(e),
      compressors |-> IF enableCompression /\ IS_PRODUCTION_ENVIRONMENT(e)
                      THEN <<"zlib">> ELSE <<>> ]

\* connectDatabase builds the options of a connection attempt.
CallBuildMongooseConnectionOptions(choice) ==
    /\ Alive
    /\ utilCall' = [fn |-> "buildMongooseConnectionOptions",
                    enableCompression |-> choice,
                    result |-> buildMongooseConnectionOptions(
                                   env, enableCompressionOf(env, choice))]
    /\ UNCHANGED managerVars

\* The options of the connection attempts, in every environment the module
\* loads with.
OptionsNext ==
    \/ LoadModule
    \/ \E choice \in CompressionChoices : CallBuildMongooseConnectionOptions(choice)

OptionsSpec == ConfigInit /\ [][OptionsNext]_vars

\* The application calls the utility functions with any arguments.
UtilNext ==
    \/ \E n \in AttemptNumbers, b \in BaseDelays, m \in MaxDelays, k \in JitterDraws :
          CallCalculateRetryDelay(n, b, m, k)
    \/ \E e \in ErrorMessages : CallIsRecoverableError(e)
    \/ \E e \in ErrorMessages : CallClassifyConnectionError(e)
    \/ \E k \in DOMAIN DATABASE_ERRORS, c \in Causes, t \in Times : CallToSafeObject(k, c, t)
    \/ \E k \in DOMAIN DATABASE_ERRORS, c \in Causes, t \in Times : CallGetUserMessage(k, c, t)
    \/ \E e \in LoggedErrors, t \in Times : CallSanitizeErrorForLogging(e, t)

UtilSpec == Init /\ [][UtilNext]_vars

(* ------------------------------ properties ---------------------------- *)

\* C1: at most one connection attempt (mongoose.connect call) is in flight at
\* any moment; overlapping connectDatabase() calls never each start their own.
C1_SingleAttemptInFlight ==
    Cardinality({c \in Callers : calls[c].pc = "connecting"}) <= 1

\* C2: a connectDatabase({retries: R}) call, R >= 1, made with
\* connectionAttempts = 0 and overlapping no other call, whose every attempt
\* fails, has made exactly R attempts when it throws, throws the classified
\* error of its last raw error, and connectionAttempts is R at that moment.
C2_RetryExhaustion ==
    \A c \in Callers :
        ( /\ calls[c].pc = "threw"
          /\ calls[c].retries >= 1
          /\ calls[c].startAttempts = 0
          /\ ~calls[c].overlapped )
        => /\ calls[c].made = calls[c].retries
           /\ calls[c].attemptsAtThrow = calls[c].retries
           /\ calls[c].lastError \in RawErrors
           /\ calls[c].thrown = classifyConnectionError(calls[c].lastError)

C2_Witness ==
    \E c \in Callers :
        /\ calls[c].pc = "threw"
        /\ calls[c].retries = MaxRetries
        /\ calls[c].startAttempts = 0
        /\ ~calls[c].overlapped
        /\ calls[c].made = MaxRetries

\* C3: connectionAttempts never exceeds the retries of a connectDatabase()
\* call that is executing, nor of a call at the moment it throws (stated for
\* the calls with retries >= 1).
C3_AttemptsNeverExceedRetries ==
    \A c \in Callers :
        calls[c].retries >= 1
        => /\ Running(c) => _connectionAttempts <= calls[c].retries
           /\ calls[c].pc = "threw" => calls[c].attemptsAtThrow <= calls[c].retries

\* C4: a connectDatabase() call with retries >= 1 made while not connected
\* makes at least one connection attempt before it fails.
C4_AttemptBeforeFailure ==
    \A c \in Callers :
        (calls[c].pc = "threw" /\ calls[c].retries >= 1) => calls[c].made >= 1

C7_FailureLoggedAndClassified ==
    \A c \in Callers :
        (calls[c].pc = "threw" /\ calls[c].retries >= 1)
        => /\ calls[c].failedLogged
           /\ calls[c].made >= 1
              => calls[c].thrown = classifyConnectionError(calls[c].lastError)

\* C8: after an attempt failed with an error that is not retry-eligible,
\* connectDatabase() makes no further attempt for that call.
C8_NoRetryAfterNonRecoverable ==
    \A c \in Callers : ~calls[c].retriedFatal

\* C9: every backoff sleep of a call follows a failed attempt of that call and
\* lasts calculateRetryDelay(n, retryDelay, cap) for n >= 1 the number of
\* attempts the call has made; no sleep follows the call's last attempt.
C9_BackoffOfOwnAttempt ==
    \A c \in Callers :
        /\ calls[c].pc = "sleeping"
           => /\ calls[c].sleepArg >= 1
              /\ calls[c].sleepArg = calls[c].made
              /\ \E k \in JitterDraws :
                    calls[c].sleepDelay =
                        calculateRetryDelay(calls[c].made, calls[c].retryDelay,
                                            DEFAULT_MAX_DELAY, k)
        /\ calls[c].pc = "threw" => ~calls[c].afterSleep

\* C10: a gracefulShutdown() invocation made while isShuttingDown is already
\* true changes no state, starts no disconnect and no timer, logs no audit
\* event and does not exit the process.
C10_ShutdownIdempotent ==
    [][(signalCount' = signalCount + 1 /\ _isShuttingDown)
       => UNCHANGED <<_isConnected, _isShuttingDown, _connectionAttempts,
                      readyState, audit, calls, shutdownPc, forceExitTimer,
                      exitCode, disconnectCalls, timersStarted>>]_vars

C10_Witness ==
    /\ signalCount >= 2
    /\ _isShuttingDown
    /\ shutdownPc = "disconnecting"
    /\ exitCode = "none"
    /\ disconnectCalls = 1
    /\ timersStarted = 1

Logged(event) == \E i \in 1..Len(audit) : audit[i].event = event
LastLogged(event) == audit # <<>> /\ audit[Len(audit)].event = event

\* C11: when the shutdown deadline fires before the disconnect completes,
\* EMERGENCY_SHUTDOWN is logged and the process exits with status 1; once
\* EMERGENCY_SHUTDOWN is logged, GRACEFUL_SHUTDOWN_COMPLETED is never logged
\* and the exit status is never 0.
C11_DeadlineFiresFirst ==
    /\ forceExitTimer = "fired"
       => /\ exitCode = "1"
          /\ auditEnabled => LastLogged("EMERGENCY_SHUTDOWN")
    /\ Logged("EMERGENCY_SHUTDOWN")
       => /\ exitCode = "1"
          /\ forceExitTimer = "fired"
          /\ ~Logged("GRACEFUL_SHUTDOWN_COMPLETED")

C11_Witness ==
    /\ forceExitTimer = "fired"
    /\ shutdownPc = "disconnecting"
    /\ Logged("EMERGENCY_SHUTDOWN")

\* C12: once gracefulShutdown has been invoked the process eventually exits,
\* also when mongoose.disconnect() never settles, provided the deadline timer
\* fires.
C12_ShutdownEventuallyExits == _isShuttingDown ~> (exitCode # "none")

C12_Witness ==
    /\ _isShuttingDown
    /\ disconnectCalls = 1
    /\ shutdownPc = "disconnecting"
    /\ exitCode = "1"

\* C13: the first gracefulShutdown sets isShuttingDown and logs
\* GRACEFUL_SHUTDOWN_INITIATED before it calls disconnect; when the disconnect
\* completes before the deadline the timer is cleared, no EMERGENCY_SHUTDOWN is
\* logged, GRACEFUL_SHUTDOWN_COMPLETED is logged and the exit status is 0.  In
\* the audit log GRACEFUL_SHUTDOWN_INITIATED precedes every
\* GRACEFUL_SHUTDOWN_COMPLETED and EMERGENCY_SHUTDOWN.
C13_GracefulShutdownOrder ==
    /\ disconnectCalls >= 1
       => /\ _isShuttingDown
          /\ auditEnabled => Logged("GRACEFUL_SHUTDOWN_INITIATED")
    /\ shutdownPc = "completed"
       => /\ forceExitTimer = "cleared"
          /\ exitCode = "0"
          /\ ~Logged("EMERGENCY_SHUTDOWN")
          /\ auditEnabled => LastLogged("GRACEFUL_SHUTDOWN_COMPLETED")
    /\ \A i \in 1..Len(audit) :
          audit[i].event \in {"GRACEFUL_SHUTDOWN_COMPLETED", "EMERGENCY_SHUTDOWN"}
          => \E j \in 1..(i - 1) : audit[j].event = "GRACEFUL_SHUTDOWN_INITIATED"

C13_Witness ==
    /\ shutdownPc = "completed"
    /\ disconnectCalls = 1
    /\ Logged("CONNECTION_TERMINATED")
    /\ LastLogged("GRACEFUL_SHUTDOWN_COMPLETED")

\* C14 (as claimed): a shutdown whose disconnect raised an error ends in
\* process exit with a status that depends only on the deadline: failure only
\* when the deadline was exceeded.
C14_ExitStatusOnlyByDeadline ==
    shutdownPc = "failed"
    => /\ exitCode # "none"
       /\ exitCode = "1" => forceExitTimer = "fired"

\* C14 (amended): a shutdown whose disconnect raises an error before the
\* deadline logs SYSTEM_ERROR and exits with status 1 although the deadline
\* was honored; the exit status is 0 only when the shutdown completed
\* without error before the deadline.
C14_ShutdownErrorExitsWithFailure ==
    /\ shutdownPc = "failed"
       => /\ exitCode = "1"
          /\ forceExitTimer = "armed"
          /\ auditEnabled => LastLogged("SYSTEM_ERROR")
    /\ exitCode = "0" => shutdownPc = "completed"

C14_Witness ==
    /\ shutdownPc = "failed"
    /\ forceExitTimer = "armed"
    /\ LastLogged("SYSTEM_ERROR")

\* C15: isShuttingDown is false initially, becomes true only in the first
\* gracefulShutdown invocation, and no step sets it back to false.
C15_ShuttingDownMonotonic ==
    /\ ~_isShuttingDown
    /\ [][/\ _isShuttingDown => _isShuttingDown'
          /\ (~_isShuttingDown /\ _isShuttingDown')
             => (signalCount = 0 /\ signalCount' = 1)]_vars

C15_Witness ==
    /\ _isShuttingDown
    /\ exitCode = "none"
    /\ driverEventCount = MaxDriverEvents
    /\ \E i \in 1..Len(audit) :
          /\ audit[i].event = "GRACEFUL_SHUTDOWN_INITIATED"
          /\ i < Len(audit)
          /\ audit[Len(audit)].event = "CONNECTION_LOST"

\* C16: checkDatabaseHealth() never throws: whichever way it ends (not
\* connected, no driver handle, ping error, timeout, ping success) it returns a
\* result whose isHealthy is a boolean, with the failure named in error.
C16_HealthCheckNeverThrows ==
    /\ health.pc # "threw"
    /\ health.pc = "returned"
       => /\ health.result.isHealthy \in BOOLEAN
          /\ health.outcome \in {"notConnected", "noHandle", "pingError",
                                 "timeout", "pingOk"}
          /\ health.result.isHealthy => health.result.error = "none"
          /\ ~health.result.isHealthy
             => health.result.error \in {"Database is not connected",
                                        "Database connection not available",
                                        "ping error", "Health check timeout"}

C16_Witness ==
    /\ health.pc = "returned"
    /\ health.outcome = "pingError"
    /\ health.pinged
    /\ health.lastAtCall = 1
    /\ ~health.result.isHealthy

\* C17: a checkDatabaseHealth() whose ping never settles still returns (the
\* process exiting ends the call as well): the timeout ends the race, with
\* isHealthy = false and the error 'Health check timeout'.
C17_HealthCheckTimesOut ==
    /\ [](health.outcome = "timeout"
           => /\ health.pc = "returned"
              /\ ~health.result.isHealthy
              /\ health.result.error = "Health check timeout")
    /\ (health.pc = "probing") ~> (health.pc # "probing")

C17_Witness ==
    /\ health.pc = "returned"
    /\ health.outcome = "timeout"
    /\ health.result.error = "Health check timeout"
    /\ exitCode = "none"

\* C18: checkDatabaseHealth() called while isConnected is false or the
\* driver's readyState is not 1 returns isHealthy = false without calling ping
\* and without changing lastHealthCheck; a ping is awaited only by a call made
\* while connected.
C18_HealthCheckFailsFast ==
    /\ (health.pc = "returned" /\ ~health.connectedAtCall)
       => /\ ~health.result.isHealthy
          /\ health.outcome = "notConnected"
          /\ ~health.pinged
          /\ health.lastAtReturn = health.lastAtCall
          /\ _lastHealthCheck = health.lastAtCall
    /\ health.pc = "probing" => health.connectedAtCall

C18_Witness ==
    /\ health.pc = "returned"
    /\ ~health.connectedAtCall
    /\ health.lastAtCall = 1
    /\ _isConnected
    /\ readyState # 1

\* C19: checkDatabaseHealth() returns isHealthy = true exactly when it was
\* called while connected and the ping resolved before the timeout;
\* lastHealthCheck is set to the time of the check in exactly those calls and
\* keeps its value in every call that returns isHealthy = false.
C19_HealthyIffProbeSucceeded ==
    health.pc = "returned"
    => /\ health.result.isHealthy <=> (health.connectedAtCall /\ health.outcome = "pingOk")
       /\ health.result.isHealthy
          => /\ health.lastAtReturn = healthCheckCount
             /\ health.lastAtReturn # health.lastAtCall
       /\ ~health.result.isHealthy => health.lastAtReturn = health.lastAtCall
       /\ _lastHealthCheck = health.lastAtReturn

C19_Witness ==
    /\ health.pc = "returned"
    /\ health.result.isHealthy
    /\ health.lastAtCall = 1
    /\ _lastHealthCheck = 2

\* The transition of each driver event: the flag it sets, the event it audits.
DriverEventTransitions ==
    { [name |-> "connected",    connected |-> TRUE,  event |-> "CONNECTION_ESTABLISHED"],
      [name |-> "error",        connected |-> FALSE, event |-> "SYSTEM_ERROR"],
      [name |-> "disconnected", connected |-> FALSE, event |-> "CONNECTION_LOST"],
      [name |-> "reconnected",  connected |-> TRUE,  event |-> "CONNECTION_RESTORED"],
      [name |-> "close",        connected |-> FALSE, event |-> "CONNECTION_TERMINATED"] }

\* C20: every driver event sets the connected flag and audits the event of
\* its fixed transition, whatever else is in progress, and changes none of
\* connectionAttempts, isShuttingDown and lastHealthCheck.
C20_DriverEventTransitions ==
    [][driverEventCount' = driverEventCount + 1
       => /\ UNCHANGED <<_connectionAttempts, _isShuttingDown, _lastHealthCheck>>
          /\ \E t \in DriverEventTransitions :
                /\ lastDriverEvent' = t.name
                /\ _isConnected' = t.connected
                /\ IF auditEnabled
                   THEN /\ Len(audit') = Len(audit) + 1
                        /\ SubSeq(audit', 1, Len(audit)) = audit
                        /\ audit'[Len(audit')].event = t.event
                   ELSE audit' = audit]_vars

C20_Witness ==
    /\ lastDriverEvent = "close"
    /\ ~_isConnected
    /\ _connectionAttempts >= 1
    /\ _isShuttingDown
    /\ _lastHealthCheck >= 1
    /\ exitCode = "none"
    /\ LastLogged("CONNECTION_TERMINATED")

\* C21: the connected flag is changed only by a successful connection
\* attempt, by the disconnect of a shutdown and by the driver event
\* callbacks; a health check, a failed attempt, the end of a backoff sleep and
\* the shutdown deadline leave it alone (getConnectionStatus is a read).
C21_ConnectedFlagWriters ==
    [][/\ _isConnected' # _isConnected
          => \/ \E c \in Callers : calls[c].pc = "connecting" /\ calls'[c].pc = "returned"
             \/ shutdownPc = "disconnecting" /\ shutdownPc' = "completed"
             \/ driverEventCount' = driverEventCount + 1
       /\ ( \/ health' # health /\ exitCode' = "none"
            \/ \E c \in Callers : /\ calls[c].pc \in {"connecting", "sleeping"}
                                   /\ calls'[c].pc \in {"connecting", "sleeping", "threw"}
                                   /\ calls'[c] # calls[c]
            \/ forceExitTimer' = "fired" /\ forceExitTimer # "fired" )
          => _isConnected' = _isConnected]_vars

C21_Witness ==
    /\ shutdownPc = "completed"
    /\ disconnectCalls = 1
    /\ ~_isConnected
    /\ healthCheckCount >= 1
    /\ driverEventCount >= 1

\* C22: the connection status the manager reports (getConnectionStatus, and
\* the isConnected test of connectDatabase, disconnectDatabase and
\* checkDatabaseHealth) is true only if the driver's readyState is 1 and the
\* manager's own connected flag is set.
C22_ReportedStatusSound ==
    /\ getConnectionStatus.isConnected => (readyState = 1 /\ _isConnected)
    /\ ReuseConnection => (readyState = 1 /\ _isConnected)
    /\ ~HealthFailFast => (readyState = 1 /\ _isConnected)
    /\ getConnectionStatus.isConnected
       => getConnectionStatus.readyStateDescription = "connected"

C22_Witness ==
    /\ _isConnected
    /\ readyState = 3
    /\ ~getConnectionStatus.isConnected
    /\ getConnectionStatus.readyStateDescription = "disconnecting"
    /\ exitCode = "none"

\* C23: with audit logging enabled the audit log is append-only; every step
\* that changes the connected flag or isShuttingDown appends an audit event;
\* after a step that appends CONNECTION_ESTABLISHED or CONNECTION_RESTORED the
\* flag is true, after one that appends CONNECTION_LOST, CONNECTION_TERMINATED
\* or a driver SYSTEM_ERROR it is false, and after one that appends
\* GRACEFUL_SHUTDOWN_INITIATED isShuttingDown is true.
C23_AuditWithMutation ==
    [][auditEnabled
       => /\ Len(audit') >= Len(audit)
          /\ SubSeq(audit', 1, Len(audit)) = audit
          /\ (_isConnected' # _isConnected \/ _isShuttingDown' # _isShuttingDown)
             => Len(audit') > Len(audit)
          /\ \A i \in (Len(audit) + 1)..Len(audit') :
                /\ audit'[i].event \in {"CONNECTION_ESTABLISHED", "CONNECTION_RESTORED"}
                   => _isConnected'
                /\ audit'[i].event \in {"CONNECTION_LOST", "CONNECTION_TERMINATED"}
                   => ~_isConnected'
                /\ (audit'[i].event = "SYSTEM_ERROR" /\ audit'[i].details = "driver error")
                   => ~_isConnected'
                /\ audit'[i].event = "GRACEFUL_SHUTDOWN_INITIATED"
                   => _isShuttingDown']_vars

C23_Witness ==
    /\ auditEnabled
    /\ Logged("CONNECTION_ESTABLISHED")
    /\ Logged("CONNECTION_LOST")
    /\ Logged("GRACEFUL_SHUTDOWN_INITIATED")
    /\ LastLogged("CONNECTION_TERMINATED")
    /\ ~_isConnected
    /\ _isShuttingDown

\* The kinds of the audit events of the given kinds, in the order logged.
EventKinds(kinds) ==
    LET logged == SelectSeq(audit, LAMBDA a : a.event \in kinds)
    IN  [i \in 1..Len(logged) |-> logged[i].event]

\* The number of audit events of one kind.
EventCount(event) == Cardinality({i \in 1..Len(audit) : audit[i].event = event})

\* C24: with audit logging enabled, after connect, a dropped connection, its
\* return and a completed shutdown, the audit events of the five kinds are
\* CONNECTION_ESTABLISHED, CONNECTION_LOST, CONNECTION_RESTORED,
\* GRACEFUL_SHUTDOWN_INITIATED, GRACEFUL_SHUTDOWN_COMPLETED, in that order.
C24_ScriptedAuditOrder ==
    (auditEnabled /\ Logged("CONNECTION_RESTORED") /\ shutdownPc = "completed")
    => EventKinds({"CONNECTION_ESTABLISHED", "CONNECTION_LOST", "CONNECTION_RESTORED",
                   "GRACEFUL_SHUTDOWN_INITIATED", "GRACEFUL_SHUTDOWN_COMPLETED"})
       = <<"CONNECTION_ESTABLISHED", "CONNECTION_LOST", "CONNECTION_RESTORED",
           "GRACEFUL_SHUTDOWN_INITIATED", "GRACEFUL_SHUTDOWN_COMPLETED">>

\* C25: with audit logging enabled, once a connectDatabase call has
\* succeeded (the driver's 'connected' callback included) there is exactly
\* one CONNECTION_ESTABLISHED event, and once a shutdown's disconnect has
\* completed (the 'disconnected' and 'close' callbacks included) there is
\* exactly one CONNECTION_TERMINATED event and no CONNECTION_LOST event after
\* GRACEFUL_SHUTDOWN_INITIATED.
C25_OneEventPerTransition ==
    auditEnabled
    => /\ (calls[1].pc = "returned" /\ lastDriverEvent = "connected" /\ shutdownPc = "none")
          => EventCount("CONNECTION_ESTABLISHED") = 1
       /\ (shutdownPc = "completed" /\ disconnectCalls = 1)
          => /\ EventCount("CONNECTION_TERMINATED") = 1
             /\ \A i, j \in 1..Len(audit) :
                   (audit[i].event = "GRACEFUL_SHUTDOWN_INITIATED"
                       /\ audit[j].event = "CONNECTION_LOST") => j < i

\* C27: validation runs at module load, before any operation; if it fails
\* the load fails with its error and no connection attempt, probe,
\* disconnect or signal handler ever runs in that process.
C27_ValidationFailureIsFatal ==
    /\ moduleLoad.state = "loading" => StartState
    /\ validateDatabaseEnvironment(env) # NoThrow
       => /\ StartState
          /\ moduleLoad.state \in {"loading", "failed"}
    /\ moduleLoad.state = "failed"
       => /\ moduleLoad.error = validateDatabaseEnvironment(env)
          /\ moduleLoad.error # NoThrow
    /\ moduleLoad.state = "loaded" => validateDatabaseEnvironment(env) = NoThrow

C27_Witness ==
    /\ moduleLoad.state = "failed"
    /\ moduleLoad.error.code = "DB_SECURITY_002"
    /\ env.NODE_ENV = "production"
    /\ StartState

\* C28: once the module has been loaded, validation has failed with
\* MISSING_MONGODB_URI only if the URI of the active tier is unset (the test
\* URI in the test tier, the main URI elsewhere); in the test tier it has
\* failed with MISSING_TEST_URI if the test URI is unset and has not failed
\* for a missing URI if the test URI is set.
C28_MissingURIOfActiveTier ==
    moduleLoad.state # "loading"
    => /\ moduleLoad.error.code = "DB_CONFIG_001"
          => IF env.NODE_ENV = "test" THEN ~env.MONGODB_TEST_URI ELSE ~env.MONGODB_URI
       /\ env.NODE_ENV # "test" /\ ~env.MONGODB_URI
          => moduleLoad.error.code = "DB_CONFIG_001"
       /\ env.NODE_ENV = "test" /\ ~env.MONGODB_TEST_URI
          => moduleLoad.error.code = "DB_CONFIG_002"
       /\ env.NODE_ENV = "test" /\ env.MONGODB_TEST_URI
          => moduleLoad.error.code \notin {"DB_CONFIG_001", "DB_CONFIG_002"}

\* C29: once the module has been loaded with MONGODB_URI set, in the
\* production tier validation has failed with MISSING_PRODUCTION_SECURITY if
\* JWT_SECRET, BCRYPT_ROUNDS or AUDIT_LOGGING is unset, with WEAK_JWT_SECRET
\* if all three are set and JWT_SECRET is shorter than 32 characters, and has
\* succeeded otherwise; in the other tiers it has failed with neither, whatever
\* the three variables are.
C29_ProductionSecurityKeys ==
    (moduleLoad.state # "loading" /\ env.MONGODB_URI)
    => IF env.NODE_ENV = "production"
       THEN IF env.JWT_SECRET = 0 \/ ~env.BCRYPT_ROUNDS \/ env.AUDIT_LOGGING = ""
            THEN moduleLoad.state = "failed" /\ moduleLoad.error.code = "DB_SECURITY_001"
            ELSE IF env.JWT_SECRET < 32
            THEN moduleLoad.state = "failed" /\ moduleLoad.error.code = "DB_SECURITY_002"
            ELSE moduleLoad.state = "loaded" /\ moduleLoad.error = NoThrow
       ELSE /\ moduleLoad.error.code \notin {"DB_SECURITY_001", "DB_SECURITY_002"}
            /\ moduleLoad.state = "loaded"
               <=> (env.NODE_ENV = "test" => env.MONGODB_TEST_URI)

C29_Witness ==
    /\ moduleLoad.state = "failed"
    /\ moduleLoad.error.code = "DB_SECURITY_002"
    /\ env.NODE_ENV = "production"
    /\ env.MONGODB_URI
    /\ env.JWT_SECRET = 20
    /\ env.BCRYPT_ROUNDS
    /\ env.AUDIT_LOGGING = "false"

\* C30: for every error message a failed connectDatabase call has classified,
\* an error classified CONNECTION_TIMEOUT or CONNECTION_REFUSED is
\* recoverable for isRecoverableError, and one classified
\* AUTHENTICATION_FAILED is not.
C30_ClassifyAgreesWithRecoverable ==
    \A c \in Callers :
        calls[c].pc = "threw"
        => /\ calls[c].thrown = classifyConnectionError(calls[c].lastError)
           /\ calls[c].thrown.code \in {"DB_CONN_001", "DB_CONN_002"}
              => isRecoverableError(calls[c].lastError)
           /\ calls[c].thrown.code = "DB_AUTH_001"
              => ~isRecoverableError(calls[c].lastError)

\* C31: isRecoverableError returns false for every message with an
\* authentication, authorization or bad-credential pattern ('unauthorized'
\* included, also next to 'timeout'), true for every message with 'timeout' or
\* another network, DNS or connection-reset pattern and none of the former,
\* and false for every message with none of these patterns.
C31_IsRecoverable ==
    utilCall.fn = "isRecoverableError"
    => LET m == utilCall.error
           auth == m \cap {"authentication failed", "unauthorized", "invalid credentials",
                           "access denied", "bad auth", "authentication error"} # {}
           network == m \cap {"timeout", "network", "temporary", "connection reset",
                              "connection lost", "server selection", "dns"} # {}
       IN  /\ auth => utilCall.result = FALSE
           /\ (network /\ ~auth) => utilCall.result = TRUE
           /\ (~network /\ ~auth) => utilCall.result = FALSE

C31_Witness ==
    /\ utilCall.fn = "isRecoverableError"
    /\ utilCall.error = {"timeout", "unauthorized"}
    /\ utilCall.result = FALSE

\* C32: classifyConnectionError gives CONNECTION_TIMEOUT for a message with
\* 'timeout' or 'timed out'; otherwise CONNECTION_REFUSED for one with
\* 'econnrefused' or 'connection refused'; otherwise AUTHENTICATION_FAILED for
\* one with 'authentication failed', 'unauthorized' or 'invalid credentials';
\* otherwise CONNECTION_TIMEOUT; the result has the code, severity, message and
\* action of that entry of DATABASE_ERRORS and wraps the error.
C32_Classify ==
    utilCall.fn = "classifyConnectionError"
    => LET m == utilCall.error
           entry == IF m \cap {"timeout", "timed out"} # {}
                      THEN DATABASE_ERRORS.CONNECTION_TIMEOUT
                    ELSE IF m \cap {"econnrefused", "connection refused"} # {}
                      THEN DATABASE_ERRORS.CONNECTION_REFUSED
                    ELSE IF m \cap {"authentication failed", "unauthorized",
                                    "invalid credentials"} # {}
                      THEN DATABASE_ERRORS.AUTHENTICATION_FAILED
                    ELSE DATABASE_ERRORS.CONNECTION_TIMEOUT
       IN  /\ utilCall.result.code = entry.code
           /\ utilCall.result.severity = entry.severity
           /\ utilCall.result.action = entry.action
           /\ utilCall.result.message = entry.message
           /\ utilCall.result.originalError = m
           /\ entry.severity = "HIGH"
           /\ entry.code \in {"DB_CONN_001", "DB_CONN_002", "DB_AUTH_001"}

C32_Witness ==
    /\ utilCall.fn = "classifyConnectionError"
    /\ utilCall.error = {"econnrefused", "unauthorized"}
    /\ utilCall.result.code = "DB_CONN_002"

\* min(base * 2^(attempt - 1), max) of the call of calculateRetryDelay.
ExponentialDelayOfCall ==
    Min(utilCall.baseDelay * (2 ^ (utilCall.attempt - 1)), utilCall.maxDelay)

\* C33 (as stated): calculateRetryDelay(n, base, max) returns a non-negative
\* integer between 0.75 * e and 1.25 * e, e = min(base * 2^(n-1), max).
C33_BackoffWithinQuarter ==
    utilCall.fn = "calculateRetryDelay"
    => /\ utilCall.result >= 0
       /\ 4 * utilCall.result >= 3 * ExponentialDelayOfCall
       /\ 4 * utilCall.result <= 5 * ExponentialDelayOfCall

\* C33 (amended): calculateRetryDelay(n, base, max) returns a non-negative
\* integer between the floor of 0.75 * e and 1.25 * e.
C33_BackoffWithinQuarterFloored ==
    utilCall.fn = "calculateRetryDelay"
    => /\ utilCall.result \in Nat
       /\ utilCall.result >= (3 * ExponentialDelayOfCall) \div 4
       /\ 4 * utilCall.result <= 5 * ExponentialDelayOfCall

C33_Witness ==
    /\ utilCall.fn = "calculateRetryDelay"
    /\ utilCall.attempt = 2
    /\ utilCall.baseDelay = 1
    /\ utilCall.maxDelay = DEFAULT_MAX_DELAY
    /\ utilCall.random = 0
    /\ ExponentialDelayOfCall = 2
    /\ utilCall.result = 1

\* C34: the delay calculateRetryDelay(n, base, max) returns never exceeds max.
C34_BackoffCappedAtMax ==
    utilCall.fn = "calculateRetryDelay" => utilCall.result <= utilCall.maxDelay

\* C35: the options of every connection attempt, in every tier and for every
\* enableCompression, have w = 'majority' and readPreference = 'primary'; in
\* production maxPoolSize is 10, minPoolSize 2, tls is on and autoIndex off;
\* in the other tiers maxPoolSize is 20 and minPoolSize 5.
C35_ConnectionOptions ==
    utilCall.fn = "buildMongooseConnectionOptions"
    => /\ utilCall.result.w = "majority"
       /\ utilCall.result.readPreference = "primary"
       /\ IF env.NODE_ENV = "production"
          THEN /\ utilCall.result.maxPoolSize = 10
               /\ utilCall.result.minPoolSize = 2
               /\ utilCall.result.tls
               /\ ~utilCall.result.autoIndex
          ELSE /\ utilCall.result.maxPoolSize = 20
               /\ utilCall.result.minPoolSize = 5

C35_Witness ==
    /\ utilCall.fn = "buildMongooseConnectionOptions"
    /\ env.NODE_ENV = "production"
    /\ utilCall.enableCompression = "false"
    /\ utilCall.result.maxPoolSize = 10
    /\ utilCall.result.tls

\* The DatabaseError of the call built around another cause.
SameErrorWithCause(cause) ==
    [utilCall.error EXCEPT !.originalError = cause]

\* C36: the projection of a DatabaseError for the log (toSafeObject, and
\* sanitizeErrorForLogging of a DatabaseError) has no originalError and is the
\* same, code, severity, message and action included, whatever error the
\* DatabaseError wraps; getUserMessage depends on the severity alone.
C36_ProjectionHidesCause ==
    /\ ( \/ utilCall.fn = "toSafeObject"
         \/ utilCall.fn = "sanitizeErrorForLogging" /\ utilCall.error.name = "DatabaseError" )
       => /\ DOMAIN utilCall.result
               = {"name", "message", "code", "severity", "action", "timestamp", "stack"}
          /\ \A cause \in Causes :
                LET other == IF utilCall.fn = "toSafeObject"
                             THEN toSafeObject(SameErrorWithCause(cause))
                             ELSE sanitizeErrorForLogging(SameErrorWithCause(cause),
                                                          utilCall.now)
                IN  /\ other.code = utilCall.result.code
                    /\ other.severity = utilCall.result.severity
                    /\ other.message = utilCall.result.message
                    /\ other.action = utilCall.result.action
                    /\ other = utilCall.result
    /\ utilCall.fn = "getUserMessage"
       => \A k \in DOMAIN DATABASE_ERRORS, cause \in Causes, t \in Times :
             DATABASE_ERRORS[k].severity = utilCall.error.severity
             => getUserMessage(DatabaseErrorAt(DATABASE_ERRORS[k], cause, t))
                  = utilCall.result

C36_Witness ==
    /\ utilCall.fn = "sanitizeErrorForLogging"
    /\ utilCall.error.name = "DatabaseError"
    /\ utilCall.error.code = "DB_AUTH_001"
    /\ utilCall.error.originalError = {"authentication failed"}
    /\ utilCall.result.code = "DB_AUTH_001"

\* C37: whenever the manager reports isConnected = true and no connectDatabase
\* call is executing, connectionAttempts is 0.
C37_ConnectedMeansNoAttempts ==
    (getConnectionStatus.isConnected /\ \A c \in Callers : ~Running(c))
    => _connectionAttempts = 0

\* C38: once GRACEFUL_SHUTDOWN_COMPLETED is logged and the process has exited
\* with status 0, the driver connection is closed (readyState 0).
C38_CompletedMeansClosed ==
    (LastLogged("GRACEFUL_SHUTDOWN_COMPLETED") \/ (shutdownPc = "completed" /\ exitCode = "0"))
    => readyState = 0

\* A step in which a connection attempt is started: a call enters its
\* mongoose.connect().
AttemptStarts ==
    \E c \in Callers : calls[c].pc # "connecting" /\ calls'[c].pc = "connecting"

\* C39 (as stated): once isShuttingDown is true no connection attempt is
\* started, neither by a new connectDatabase call nor by a retry loop whose
\* sleep ends, and the connected flag is not set back to true.
C39_NoAttemptWhileShuttingDown ==
    [][_isShuttingDown
       => /\ ~AttemptStarts
          /\ _connectionAttempts' <= _connectionAttempts
          /\ (shutdownPc \in {"completed", "failed"} /\ ~_isConnected) => ~_isConnected']_vars

\* C39 (amended): isShuttingDown does not stop connection attempts while the
\* shutdown's disconnect is pending; once the disconnect has completed or
\* failed or the deadline has fired, the process has exited: no attempt is
\* started, connectionAttempts and the connected flag no longer change.
C39_NoAttemptAfterShutdownEnds ==
    [][/\ (_isShuttingDown /\ AttemptStarts)
          => (shutdownPc = "disconnecting" /\ exitCode = "none")
       /\ (shutdownPc \in {"completed", "failed"} \/ forceExitTimer = "fired")
          => /\ exitCode # "none"
             /\ ~AttemptStarts
             /\ UNCHANGED <<_isConnected, _connectionAttempts, readyState, exitCode>>]_vars

C39_Witness ==
    /\ _isShuttingDown
    /\ shutdownPc = "disconnecting"
    /\ driverEventCount = 0
    /\ calls[1].pc = "returned" /\ ~calls[1].reused
    /\ calls[2].pc = "connecting" /\ ~calls[2].overlapped

\* The audit events a step appends.
Appended == SubSeq(audit', Len(audit) + 1, Len(audit'))

\* C40: disconnectDatabase, called by the shutdown: when the manager is not
\* connected it returns without calling mongoose.disconnect, changing the
\* state or logging CONNECTION_TERMINATED or SYSTEM_ERROR; when
\* mongoose.disconnect resolves the flag becomes false and
\* CONNECTION_TERMINATED is logged; when it rejects the flag is unchanged,
\* SYSTEM_ERROR is logged and the error reaches gracefulShutdown, which exits
\* with status 1.
C40_DisconnectAllOrNothing ==
    [][/\ (~_isShuttingDown /\ _isShuttingDown' /\ ~isConnected)
          => /\ disconnectCalls' = disconnectCalls
             /\ UNCHANGED <<_isConnected, _connectionAttempts, readyState>>
             /\ \A i \in 1..Len(Appended) :
                   Appended[i].event \notin {"CONNECTION_TERMINATED", "SYSTEM_ERROR"}
       /\ (~_isShuttingDown /\ _isShuttingDown' /\ isConnected)
          => /\ disconnectCalls' = disconnectCalls + 1
             /\ shutdownPc' = "disconnecting"
       /\ (shutdownPc = "disconnecting" /\ shutdownPc' = "completed")
          => /\ ~_isConnected'
             /\ auditEnabled
                => \E i \in 1..Len(Appended) : Appended[i].event = "CONNECTION_TERMINATED"
       /\ (shutdownPc = "disconnecting" /\ shutdownPc' = "failed")
          => /\ _isConnected' = _isConnected
             /\ exitCode' = "1"
             /\ auditEnabled
                => /\ Len(Appended) = 2
                   /\ \A i \in 1..2 : Appended[i].event = "SYSTEM_ERROR"
             /\ \A i \in 1..Len(Appended) : Appended[i].event # "CONNECTION_TERMINATED"]_vars

C40_Witness ==
    /\ shutdownPc = "failed"
    /\ disconnectCalls = 1
    /\ _isConnected
    /\ exitCode = "1"
    /\ LastLogged("SYSTEM_ERROR")

====
